---- MODULE Spec2Model ----
(***************************************************************************)
(* HousingETL: the validation pipeline of data_quality_check.py            *)
(* (data_validation and its filters) followed by the transformation of     *)
(* data_transformation.py (resale identifier, collision filter, hash,      *)
(* append to the failed CSV).                                              *)
(*                                                                         *)
(* A data frame is a sequence of rows; a row is a record of its columns.   *)
(* Text is a sequence of one-character strings, so that parsing,           *)
(* formatting, upper-casing, slicing and concatenation are computed.       *)
(* A nullable value is <<>> (null) or <<v>>.  Every row carries a field    *)
(* rid = <<run, index>> that is not a column: it names the input row the   *)
(* row was made from.                                                      *)
(***************************************************************************)
EXTENDS Integers, Sequences, FiniteSets, TLC

VARIABLES
    pc,                           \* position in the two scripts
    rules,                        \* data_quality_rules.json, loaded at import
    run,                          \* number of pipeline runs started
    clock,                        \* datetime.now()
    df,                           \* data_validation's input frame
    non_numeric_df,               \* rejects of filter_null_values
    qualified_df,                 \* data_validation's working frame
    missing_from_expected_cat_df, \* rejects of the categorical filter
    df_duplicates_subset,         \* rejects of the last duplicate filter run
    unqualified_df,               \* data_validation's second result
    cleaned_file,                 \* CleanedFolderName CSV
    failed_exists,                \* os.path.exists(FailedFolderName)
    failed_file,                  \* FailedFolderName CSV
    df_with_resale_identifier,    \* get_resale_identifier's result
    df_remove_duplicates,         \* filter_resale_identifier's survivors
    transformed_file,             \* TransformedFolderName CSV
    hashed_file                   \* HashedFolderName CSV

vars == <<pc, rules, run, clock, df, non_numeric_df, qualified_df,
          missing_from_expected_cat_df, df_duplicates_subset, unqualified_df,
          cleaned_file, failed_exists, failed_file, df_with_resale_identifier,
          df_remove_duplicates, transformed_file, hashed_file>>

---------------------------------------------------------------------------
(* Bounds *)

\* rows in one input batch
MaxRows == 2

\* pipeline runs against the same output paths (specification SpecRuns)
MaxRuns == 2

---------------------------------------------------------------------------
(* Text and nullable values *)

Null == <<>>

Some(v) == <<v>>

IsNull(o) == o = <<>>

Val(o) == o[1]

DigitChars == <<"0", "1", "2", "3", "4", "5", "6", "7", "8", "9">>

LowerChars == <<"a", "b", "c", "d", "e", "f", "g", "h", "i", "j", "k", "l", "m",
                "n", "o", "p", "q", "r", "s", "t", "u", "v", "w", "x", "y", "z">>

UpperChars == <<"A", "B", "C", "D", "E", "F", "G", "H", "I", "J", "K", "L", "M",
                "N", "O", "P", "Q", "R", "S", "T", "U", "V", "W", "X", "Y", "Z">>

IsDigit(c) == \E d \in 1..10 : DigitChars[d] = c

DigitVal(c) == (CHOOSE d \in 1..10 : DigitChars[d] = c) - 1

AllDigits(s) == \A i \in 1..Len(s) : IsDigit(s[i])

RECURSIVE NatOf(_)
\* value of a non-empty digit string
NatOf(s) ==
    IF Len(s) = 0 THEN 0
    ELSE 10 * NatOf(SubSeq(s, 1, Len(s) - 1)) + DigitVal(s[Len(s)])

RECURSIVE NatStr(_)
NatStr(n) ==
    IF n < 10 THEN <<DigitChars[n + 1]>>
    ELSE NatStr(n \div 10) \o <<DigitChars[(n % 10) + 1]>>

\* an integer in a format string or a string cast: decimal, no padding
IntStr(n) == IF n < 0 THEN <<"-">> \o NatStr(-n) ELSE NatStr(n)

\* str.to_uppercase on one character
UpperChar(c) ==
    IF \E k \in 1..26 : LowerChars[k] = c
    THEN UpperChars[CHOOSE k \in 1..26 : LowerChars[k] = c]
    ELSE c

\* str.to_uppercase
ToUppercase(s) == [i \in 1..Len(s) |-> UpperChar(s[i])]

\* str.to_integer(strict=False): an optional sign and decimal digits, else null
ToInteger(s) ==
    IF Len(s) > 0 /\ AllDigits(s) THEN Some(NatOf(s))
    ELSE IF Len(s) > 1 /\ s[1] = "-" /\ AllDigits(Tail(s)) THEN Some(-NatOf(Tail(s)))
    ELSE IF Len(s) > 1 /\ s[1] = "+" /\ AllDigits(Tail(s)) THEN Some(NatOf(Tail(s)))
    ELSE Null

\* a date value
Date(y, m, d) == [year |-> y, month |-> m, day |-> d]

\* str.to_date(format="%Y-%m", strict=False) and strptime(..., "%Y-%m") on
\* texts of the shape YYYY-MM; the day is the first of the month
ToDateYearMonth(s) ==
    IF /\ Len(s) = 7
       /\ s[5] = "-"
       /\ AllDigits(SubSeq(s, 1, 4))
       /\ AllDigits(SubSeq(s, 6, 7))
       /\ NatOf(SubSeq(s, 6, 7)) \in 1..12
    THEN Some(Date(NatOf(SubSeq(s, 1, 4)), NatOf(SubSeq(s, 6, 7)), 1))
    ELSE Null

\* str.to_date(format="%Y", strict=False) on texts of the shape YYYY
ToDateYear(s) ==
    IF Len(s) = 4 /\ AllDigits(s) THEN Some(Date(NatOf(s), 1, 1)) ELSE Null

\* zero-padded decimal of width 2
Pad2(n) == IF n < 10 THEN <<"0">> \o NatStr(n) ELSE NatStr(n)

\* a date cast to text: YYYY-MM-DD
DateStr(d) == NatStr(d.year) \o <<"-">> \o Pad2(d.month) \o <<"-">> \o Pad2(d.day)

\* is_between(start, end), both ends included
DateLeq(a, b) ==
    \/ a.year < b.year
    \/ a.year = b.year /\ a.month < b.month
    \/ a.year = b.year /\ a.month = b.month /\ a.day <= b.day

RECURSIVE ConcatAll(_)
\* the texts of a sequence joined with separator ""
ConcatAll(ss) == IF Len(ss) = 0 THEN <<>> ELSE Head(ss) \o ConcatAll(Tail(ss))

---------------------------------------------------------------------------
(* Frames *)

\* with_columns(value.alias(name)) on one row: replaces or adds the column
WithColumn(r, name, v) == (name :> v) @@ r

\* drop(names) on one row
DropColumns(r, names) == [c \in (DOMAIN r) \ names |-> r[c]]

\* an expression evaluated on every row of a frame
MapRows(frame, F(_)) ==
    LET M[i \in 0..Len(frame)] ==
            IF i = 0 THEN <<>> ELSE Append(M[i - 1], F(frame[i]))
    IN  M[Len(frame)]

\* the input rows a frame's rows were made from
Rids(frame) == {frame[i].rid : i \in 1..Len(frame)}

\* number of rows of a frame made from input row id
Count(frame, id) == Cardinality({i \in 1..Len(frame) : frame[i].rid = id})

---------------------------------------------------------------------------
(* Inputs: raw rows (resale_flat_schema.raw_resale_flat_schema, all text)   *)
(* and rule sets (data_quality_rules.json)                                 *)

RawColumns == <<"month", "town", "flat_type", "block", "street_name",
                "storey_range", "floor_area_sqm", "flat_model",
                "lease_commence_date", "remaining_lease", "resale_price">>

BEDOK == <<"B", "E", "D", "O", "K">>

TAMPINES == <<"T", "A", "M", "P", "I", "N", "E", "S">>

ROOM3 == <<"3", " ", "R", "O", "O", "M">>

ROOM4 == <<"4", " ", "R", "O", "O", "M">>

\* block 12A, 2024-03, lease from 1990, 85 sqm, 350000
BaseRow ==
    [month |-> <<"2", "0", "2", "4", "-", "0", "3">>,
     town |-> BEDOK,
     flat_type |-> ROOM3,
     block |-> <<"1", "2", "A">>,
     street_name |-> <<"A", "V", "E", " ", "1">>,
     storey_range |-> <<"0", "1", " ", "T", "O", " ", "0", "3">>,
     floor_area_sqm |-> <<"8", "5">>,
     flat_model |-> <<"N", "E", "W">>,
     lease_commence_date |-> <<"1", "9", "9", "0">>,
     remaining_lease |-> <<"6", "5">>,
     resale_price |-> <<"3", "5", "0", "0", "0", "0">>]

RawRows ==
    << BaseRow,
       \* the base row at a lower price
       [BaseRow EXCEPT !.resale_price = <<"3", "0", "0", "0", "0", "0">>],
       \* one of the four cast fields does not parse
       [BaseRow EXCEPT !.resale_price = <<"a", "b", "c">>],
       [BaseRow EXCEPT !.month = <<"2", "0", "2", "4", "-", "1", "3">>],
       [BaseRow EXCEPT !.lease_commence_date = <<"n", "a">>],
       [BaseRow EXCEPT !.floor_area_sqm = <<"8", ".", "5">>],
       \* a month before min_month
       [BaseRow EXCEPT !.month = <<"2", "0", "1", "0", "-", "0", "1">>],
       \* a town outside the expected values
       [BaseRow EXCEPT !.town = <<"J", "O", "H", "O", "R">>],
       \* a flat type outside the expected values, in the month min_month
       [BaseRow EXCEPT !.flat_type = <<"9", " ", "R", "O", "O", "M">>,
                       !.block = <<"1", "0", "0", "5", "B">>,
                       !.month = <<"2", "0", "1", "7", "-", "0", "1">>],
       \* the base row's block, month and flat type in another town
       [BaseRow EXCEPT !.town = TAMPINES,
                       !.resale_price = <<"4", "2", "0", "0", "1", "0">>],
       \* another flat of the base row's block, town in lower case
       [BaseRow EXCEPT !.town = <<"b", "e", "d", "o", "k">>,
                       !.street_name = <<"S", "T", " ", "2">>],
       \* block 12 of the street AAVE 1: with the base row's block 12A of AVE 1
       \* the two texts run together to 12AAVE 1
       [BaseRow EXCEPT !.block = <<"1", "2">>,
                       !.street_name = <<"A", "A", "V", "E", " ", "1">>,
                       !.resale_price = <<"3", "1", "0", "0", "0", "0">>] >>

\* the rows SpecRuns draws its batches from
RunRows == <<RawRows[1], RawRows[3], RawRows[11]>>

TownRule == [column |-> "town", expected_values |-> {BEDOK, TAMPINES}]

FlatTypeRule == [column |-> "flat_type", expected_values |-> {ROOM3, ROOM4}]

RuleSet(categorical, lease) ==
    [categorical_columns |-> categorical,
     min_month |-> <<"2", "0", "1", "7", "-", "0", "1">>,
     max_month |-> <<"2", "0", "2", "4", "-", "1", "2">>,
     remaining_lease_max |-> lease]

RuleSets ==
    { RuleSet(<<TownRule>>, 99),
      RuleSet(<<TownRule, FlatTypeRule>>, 99),
      RuleSet(<<FlatTypeRule, TownRule>>, 60) }

\* the batches of 1..n rows drawn from rows
Batches(rows, n) ==
    UNION {[1..k -> 1..Len(rows)] : k \in 1..n}

---------------------------------------------------------------------------
(* data_quality_check.py *)

\* combine_datasets: the raw rows, stamped with created_datetime
combine_datasets(rows, batch, r, now) ==
    [i \in 1..Len(batch) |->
        WithColumn(WithColumn(rows[batch[i]], "created_datetime", now),
                   "rid", <<r, i>>)]

\* load_quality_rules
load_quality_rules == rules.categorical_columns

\* filter_null_values, the casts
CastRow(r) ==
    [r EXCEPT !.resale_price = ToInteger(@),
              !.month = ToDateYearMonth(@),
              !.lease_commence_date = ToDateYear(@),
              !.floor_area_sqm = ToInteger(@)]

\* filter_null_values, the filter of non_numeric_df
AnyCastNull(r) ==
    \/ IsNull(r.resale_price)
    \/ IsNull(r.month)
    \/ IsNull(r.lease_commence_date)
    \/ IsNull(r.floor_area_sqm)

\* the filter of qualified_df without its test of floor_area_sqm
AllCastNotNullButArea(r) ==
    /\ ~IsNull(r.resale_price)
    /\ ~IsNull(r.month)
    /\ ~IsNull(r.lease_commence_date)

\* filter_null_values, the filter of qualified_df
AllCastNotNull(r) ==
    /\ ~IsNull(r.resale_price)
    /\ ~IsNull(r.month)
    /\ ~IsNull(r.lease_commence_date)
    /\ ~IsNull(r.floor_area_sqm)

\* a rejected frame's two literal columns
Rejected(frame, now, reason) ==
    MapRows(frame, LAMBDA r :
        WithColumn(WithColumn(r, "created_datetime", now),
                   "reason_for_fail", reason))

Stamped(frame, now) ==
    MapRows(frame, LAMBDA r : WithColumn(r, "created_datetime", now))

\* filter_null_values: (non_numeric_df, qualified_df)
filter_null_values(frame, now) ==
    LET df_cast == MapRows(frame, CastRow)
    IN  [non_numeric_df |->
            Rejected(SelectSeq(df_cast, AnyCastNull), now, "filter_null_values"),
         qualified_df |-> Stamped(SelectSeq(df_cast, AllCastNotNull), now + 1)]

\* filter_month_range: the rows within [min_month, max_month]; a null month
\* compares as null and is filtered out
filter_month_range(frame) ==
    LET start == Val(ToDateYearMonth(rules.min_month))
        end == Val(ToDateYearMonth(rules.max_month))
    IN  SelectSeq(frame, LAMBDA r :
            /\ ~IsNull(r.month)
            /\ DateLeq(start, Val(r.month))
            /\ DateLeq(Val(r.month), end))

\* data_validation, the upper-casing of the categorical columns
UppercaseCategorical(frame, categorical_rules) ==
    LET cols == {categorical_rules[k].column : k \in 1..Len(categorical_rules)}
    IN  MapRows(frame, LAMBDA r :
            [c \in DOMAIN r |-> IF c \in cols THEN ToUppercase(r[c]) ELSE r[c]])

\* qualified_df.columns in data_validation
FrameColumns == {RawColumns[k] : k \in 1..Len(RawColumns)} \cup {"created_datetime"}

RECURSIVE CategoricalLoop(_, _, _, _)
\* filter_categorical_expected_values, the loop over the rules: the qualified
\* frame is filtered again by each column, the rejected frame is assigned anew
\* from the loop's input by each column
CategoricalLoop(rs, input, qualified_final_df, missing) ==
    IF Len(rs) = 0
    THEN [qualified |-> qualified_final_df, missing |-> missing]
    ELSE LET column == Head(rs).column
             expected == Head(rs).expected_values
         IN  IF column \in FrameColumns /\ expected # {}
             THEN CategoricalLoop(Tail(rs), input,
                     SelectSeq(qualified_final_df,
                               LAMBDA r : r[column] \in expected),
                     SelectSeq(input, LAMBDA r : r[column] \notin expected))
             ELSE CategoricalLoop(Tail(rs), input, qualified_final_df, missing)

\* filter_categorical_expected_values: (qualified, rejected)
filter_categorical_expected_values(categorical_rules, frame, now) ==
    LET res == CategoricalLoop(categorical_rules, frame, frame, <<>>)
    IN  [qualified |-> Stamped(res.qualified, now + 1),
         missing |->
            Rejected(res.missing, now, "filter_categorical_expected_values")]

\* a datetime cast to text; the clock counts the calls of datetime.now()
DatetimeStr(t) == NatStr(t)

\* the lease text with the years counted without the "- 1"
RemainingLeaseTextOffByOne(r) ==
    LET remaining_years ==
            rules.remaining_lease_max
            - (Val(r.month).year - Val(r.lease_commence_date).year)
        remaining_months == 12 - Val(r.month).month
    IN  IntStr(remaining_years) \o <<" ", "y", "e", "a", "r", "s", " ">>
        \o IntStr(remaining_months) \o <<" ", "m", "o", "n", "t", "h", "s">>

\* get_remaining_lease: remaining_lease recomputed on the typed rows (month and
\* lease_commence_date are not null here), created_datetime stamped
RemainingLeaseText(r) ==
    LET remaining_years ==
            rules.remaining_lease_max
            - (Val(r.month).year - Val(r.lease_commence_date).year - 1)
        remaining_months == 12 - Val(r.month).month
    IN  IntStr(remaining_years) \o <<" ", "y", "e", "a", "r", "s", " ">>
        \o IntStr(remaining_months) \o <<" ", "m", "o", "n", "t", "h", "s">>

get_remaining_lease(frame, now) ==
    MapRows(frame, LAMBDA r :
        WithColumn(WithColumn(r, "remaining_lease", RemainingLeaseText(r)),
                   "created_datetime", now))

\* filter_duplicate_rows: qualified_df.columns without resale_price
list_required_columns ==
    SelectSeq(RawColumns, LAMBDA c : c # "resale_price") \o <<"created_datetime">>

\* a column's value cast to text, as concat_str and write_csv cast it
\* (null: the empty text of write_csv)
ColumnText(r, c) ==
    IF c \in {"resale_price", "floor_area_sqm"}
    THEN IF IsNull(r[c]) THEN <<>> ELSE IntStr(Val(r[c]))
    ELSE IF c \in {"month", "lease_commence_date"}
    THEN IF IsNull(r[c]) THEN <<>> ELSE DateStr(Val(r[c]))
    ELSE IF c = "created_datetime" THEN DatetimeStr(r[c])
    ELSE r[c]

\* concat_str(list_required_columns, separator="")
CompositeKey(r) ==
    ConcatAll([k \in 1..Len(list_required_columns) |->
                  ColumnText(r, list_required_columns[k])])

\* the rows of a frame at the positions in S, in the frame's order
Subframe(frame, S) ==
    LET F[i \in 0..Len(frame)] ==
            IF i = 0 THEN <<>>
            ELSE IF i \in S THEN Append(F[i - 1], frame[i]) ELSE F[i - 1]
    IN  F[Len(frame)]

RECURSIVE SortByPriceAsc(_)
\* the sort with descending=False
SortByPriceAsc(frame) ==
    IF Len(frame) <= 1 THEN frame
    ELSE LET front == SortByPriceAsc(SubSeq(frame, 1, Len(frame) - 1))
             last == frame[Len(frame)]
             ahead == {i \in 1..Len(front) :
                          Val(front[i].resale_price) <= Val(last.resale_price)}
         IN  Subframe(front, ahead) \o <<last>>
             \o Subframe(front, (1..Len(front)) \ ahead)

RECURSIVE SortByPriceDesc(_)
\* sort("resale_price", descending=True, maintain_order=True): stable
SortByPriceDesc(frame) ==
    IF Len(frame) <= 1 THEN frame
    ELSE LET front == SortByPriceDesc(SubSeq(frame, 1, Len(frame) - 1))
             last == frame[Len(frame)]
             ahead == {i \in 1..Len(front) :
                          Val(front[i].resale_price) >= Val(last.resale_price)}
         IN  Subframe(front, ahead) \o <<last>>
             \o Subframe(front, (1..Len(front)) \ ahead)

\* unique(subset=[col], keep="first"), in the frame's order
UniqueKeepFirst(frame, col) ==
    Subframe(frame, {i \in 1..Len(frame) :
                        \A j \in 1..(i - 1) : frame[j][col] # frame[i][col]})

\* filter(pl.col(col).is_duplicated()): every row whose value occurs twice
IsDuplicated(frame, col) ==
    Subframe(frame, {i \in 1..Len(frame) :
                        \E j \in 1..Len(frame) :
                            j # i /\ frame[j][col] = frame[i][col]})

\* unique() without maintain_order returns its rows in no particular order
Reordered(frame, p) == [i \in 1..Len(frame) |-> frame[p[i]]]

Orders(frame) == Permutations(1..Len(frame))

\* filter_duplicate_rows, up to unique(): the sorted frame with its key
KeyedAndSorted(frame) ==
    SortByPriceDesc(MapRows(frame, LAMBDA r :
        WithColumn(r, "composite_key", CompositeKey(r))))

DuplicateRowsSurvivors(frame) == UniqueKeepFirst(KeyedAndSorted(frame), "composite_key")

DuplicateRowsSubset(frame) ==
    MapRows(IsDuplicated(KeyedAndSorted(frame), "composite_key"),
            LAMBDA r : DropColumns(r, {"composite_key"}))

\* filter_duplicate_rows: (qualified_unique_df, df_duplicates_subset)
filter_duplicate_rows(frame, now, p) ==
    [qualified_unique_df |->
        Stamped(Reordered(DuplicateRowsSurvivors(frame), p), now + 1),
     df_duplicates_subset |->
        Rejected(DuplicateRowsSubset(frame), now, "filter_duplicate_rows")]

\* write_csv of a frame of data_validation: every column as text (rid is
\* carried along)
write_csv(frame) ==
    MapRows(frame, LAMBDA r :
        [r EXCEPT !.month = ColumnText(r, "month"),
                  !.floor_area_sqm = ColumnText(r, "floor_area_sqm"),
                  !.lease_commence_date = ColumnText(r, "lease_commence_date"),
                  !.resale_price = ColumnText(r, "resale_price"),
                  !.created_datetime = ColumnText(r, "created_datetime")])

---------------------------------------------------------------------------
(* data_transformation.py *)

\* a date column read back from a CSV: YYYY-MM-DD
ToDateYMD(s) ==
    IF /\ Len(s) = 10
       /\ s[5] = "-"
       /\ s[8] = "-"
       /\ AllDigits(SubSeq(s, 1, 4))
       /\ AllDigits(SubSeq(s, 6, 7))
       /\ AllDigits(SubSeq(s, 9, 10))
    THEN Some(Date(NatOf(SubSeq(s, 1, 4)), NatOf(SubSeq(s, 6, 7)),
                   NatOf(SubSeq(s, 9, 10))))
    ELSE Null

\* transform_cleaned_data's read_csv(cleaned_path, dtypes=cleaned_resale_flat_schema,
\* try_parse_dates=True): month is a date, floor_area_sqm and resale_price are
\* integers, lease_commence_date stays text, created_datetime is parsed
read_cleaned_csv(file) ==
    MapRows(file, LAMBDA r :
        [r EXCEPT !.month = ToDateYMD(@),
                  !.floor_area_sqm = ToInteger(@),
                  !.resale_price = ToInteger(@),
                  !.created_datetime = NatOf(@)])

\* str.replace_all(r"[^0-9]", "")
StripNonDigits(s) == SelectSeq(s, IsDigit)

RECURSIVE Zfill(_, _)
\* str.zfill(width): zeros on the left up to width, longer texts unchanged
Zfill(s, width) == IF Len(s) >= width THEN s ELSE Zfill(<<"0">> \o s, width)

\* get_resale_identifier, column block_num
BlockNum(r) == Zfill(StripNonDigits(r.block), 3)

RECURSIVE SumPrices(_)
SumPrices(frame) ==
    IF Len(frame) = 0 THEN 0
    ELSE Val(Head(frame).resale_price) + SumPrices(Tail(frame))

\* the group's first price taken for its mean
AvgResalePriceFirst(frame, r) ==
    LET group == SelectSeq(frame, LAMBDA x :
                     x.month = r.month /\ x.flat_type = r.flat_type)
    IN  [sum |-> Val(Head(group).resale_price), count |-> 1]

\* group_by(["month", "flat_type"]).agg(mean) joined back: the mean of the
\* row's group, as the exact quotient sum / count
AvgResalePrice(frame, r) ==
    LET group == SelectSeq(frame, LAMBDA x :
                     x.month = r.month /\ x.flat_type = r.flat_type)
    IN  [sum |-> SumPrices(group), count |-> Len(group)]

\* cast(pl.Int64) of a float: the fraction is cut off
CastInt64(avg) ==
    IF avg.sum >= 0 THEN avg.sum \div avg.count
    ELSE -((-avg.sum) \div avg.count)

\* str.slice(offset, length)
StrSlice(s, offset, length) ==
    SubSeq(s, offset + 1, IF offset + length > Len(s) THEN Len(s) ELSE offset + length)

\* the format with the town sliced from its second character on
ResaleIdentifierTextDropFirst(r) ==
    <<"S">> \o r.block_num
            \o IntStr(CastInt64(r.avg_resale_price) % 100)
            \o IntStr(Val(r.month).month)
            \o SubSeq(r.town, 2, Len(r.town))

\* get_resale_identifier, the format "S{}{}{}{}"
ResaleIdentifierText(r) ==
    <<"S">> \o r.block_num
            \o IntStr(CastInt64(r.avg_resale_price) % 100)
            \o IntStr(Val(r.month).month)
            \o StrSlice(r.town, 0, 1)

\* get_resale_identifier
get_resale_identifier(frame) ==
    LET with_block == MapRows(frame, LAMBDA r :
            WithColumn(r, "block_num", BlockNum(r)))
        df_with_avg == MapRows(with_block, LAMBDA r :
            WithColumn(r, "avg_resale_price", AvgResalePrice(with_block, r)))
    IN  MapRows(df_with_avg, LAMBDA r :
            WithColumn(r, "resale_identifier", ResaleIdentifierText(r)))

\* filter_resale_identifier, the survivors before unique() reorders them
ResaleIdentifierSurvivors(with_identifier) ==
    MapRows(UniqueKeepFirst(SortByPriceDesc(with_identifier), "resale_identifier"),
            LAMBDA r : DropColumns(r, {"block_num", "avg_resale_price"}))

\* the reason_for_fail filter_resale_identifier tags its duplicates with
ResaleIdentifierReason == "filter_resale_identifier"

\* filter_resale_identifier, the duplicates subset
ResaleIdentifierSubset(with_identifier) ==
    MapRows(IsDuplicated(SortByPriceDesc(with_identifier), "resale_identifier"),
            LAMBDA r : WithColumn(DropColumns(r, {"resale_identifier"}),
                                  "reason_for_fail", ResaleIdentifierReason))

\* the characters hash_row's texts are made of, for their codes
CodeChars ==
    DigitChars \o UpperChars \o LowerChars \o <<" ", "{", "}", "'", ":", "_">>

\* the code of every character that has one
CodeOf ==
    [c \in {CodeChars[k] : k \in 1..Len(CodeChars)} |->
        CHOOSE k \in 1..Len(CodeChars) : CodeChars[k] = c]

CharCode(c) == IF c \in DOMAIN CodeOf THEN CodeOf[c] ELSE 0

HexChars == DigitChars \o <<"a", "b", "c", "d", "e", "f">>

\* a 16-bit digest of a text, standing for SHA-256: a function of the text alone
Fold16(s) ==
    LET H[i \in 0..Len(s)] ==
            IF i = 0 THEN 7 ELSE (H[i - 1] * 31 + CharCode(s[i])) % 65536
    IN  H[Len(s)]

\* hashlib.sha256(text).hexdigest(), as the hex digits of the 16-bit digest
hexdigest(s) ==
    LET h == Fold16(s)
    IN  << HexChars[(h \div 4096) + 1], HexChars[((h \div 256) % 16) + 1],
           HexChars[((h \div 16) % 16) + 1], HexChars[(h % 16) + 1] >>

\* str(row) of the struct {"resale_identifier": ...}
StructStr(r) ==
    <<"{", "'", "r", "e", "s", "a", "l", "e", "_", "i", "d", "e", "n", "t", "i",
      "f", "i", "e", "r", "'", ":", " ", "'">> \o r.resale_identifier \o <<"'", "}">>

\* get_hashed_dataset.hash_row
hash_row(r) == hexdigest(StructStr(r))

\* get_hashed_dataset
get_hashed_dataset(frame) ==
    MapRows(frame, LAMBDA r : WithColumn(r, "hashed_resale_identifier", hash_row(r)))

\* the columns of the failed CSV data_validation writes
FailedColumns == FrameColumns \cup {"reason_for_fail"}

\* a float written by write_csv, to one decimal
FloatText(avg) ==
    IntStr(CastInt64(avg)) \o <<".">> \o NatStr(((avg.sum % avg.count) * 10) \div avg.count)

\* write_csv of a frame of transform_cleaned_data, where lease_commence_date
\* is text already and avg_resale_price, when not dropped, is a float
write_cleaned_csv(frame) ==
    MapRows(frame, LAMBDA r :
        LET typed == [r EXCEPT !.month = ColumnText(r, "month"),
                               !.floor_area_sqm = ColumnText(r, "floor_area_sqm"),
                               !.resale_price = ColumnText(r, "resale_price"),
                               !.created_datetime = ColumnText(r, "created_datetime")]
        IN  IF "avg_resale_price" \in DOMAIN r
            THEN [typed EXCEPT !.avg_resale_price = FloatText(@)]
            ELSE typed)

\* update_csv projecting df on the cleaned columns, reason_for_fail lost
update_csv_cleaned_columns(frame, exists, file) ==
    IF ~exists
    THEN write_cleaned_csv(frame)
    ELSE LET aligned == MapRows(frame, LAMBDA r :
                 [c \in (DOMAIN r) \cap (FrameColumns \cup {"rid"}) |-> r[c]])
         IN  file \o write_cleaned_csv(aligned)

\* update_csv(df, path): the file after the call.  A missing file is created
\* from df; an existing one is read, df is projected on its columns, appended
\* and the whole written back (read_csv followed by write_csv leaves the
\* existing rows' texts as they are)
update_csv(frame, exists, file) ==
    IF ~exists
    THEN write_cleaned_csv(frame)
    ELSE LET aligned == MapRows(frame, LAMBDA r :
                 [c \in (DOMAIN r) \cap (FailedColumns \cup {"rid"}) |-> r[c]])
         IN  file \o write_cleaned_csv(aligned)

---------------------------------------------------------------------------
(* The pipeline: python data_quality_check.py, then python                 *)
(* data_transformation.py, run after run                                   *)

Init ==
    /\ pc = "idle"
    /\ rules \in RuleSets
    /\ run = 0
    /\ clock = 1
    /\ df = <<>>
    /\ non_numeric_df = <<>>
    /\ qualified_df = <<>>
    /\ missing_from_expected_cat_df = <<>>
    /\ df_duplicates_subset = <<>>
    /\ unqualified_df = <<>>
    /\ cleaned_file = <<>>
    /\ failed_exists = FALSE
    /\ failed_file = <<>>
    /\ df_with_resale_identifier = <<>>
    /\ df_remove_duplicates = <<>>
    /\ transformed_file = <<>>
    /\ hashed_file = <<>>

files == <<cleaned_file, failed_exists, failed_file, transformed_file, hashed_file>>

transform_locals == <<df_with_resale_identifier, df_remove_duplicates>>

\* __main__ of data_quality_check.py: combine_datasets(raw_folder)
CombineDatasets(rows, maxRows, maxRuns) ==
    /\ pc \in {"idle", "done"}
    /\ run < maxRuns
    /\ \E batch \in Batches(rows, maxRows) :
           df' = combine_datasets(rows, batch, run + 1, clock)
    /\ run' = run + 1
    /\ clock' = clock + 1
    /\ pc' = "filter_null_values"
    /\ non_numeric_df' = <<>>
    /\ qualified_df' = <<>>
    /\ missing_from_expected_cat_df' = <<>>
    /\ df_duplicates_subset' = <<>>
    /\ unqualified_df' = <<>>
    /\ df_with_resale_identifier' = <<>>
    /\ df_remove_duplicates' = <<>>
    /\ UNCHANGED <<rules, files>>

\* data_validation, line 84
FilterNullValues ==
    /\ pc = "filter_null_values"
    /\ LET res == filter_null_values(df, clock)
       IN  /\ non_numeric_df' = res.non_numeric_df
           /\ qualified_df' = res.qualified_df
    /\ clock' = clock + 2
    /\ pc' = "filter_month_range"
    /\ UNCHANGED <<rules, run, df, missing_from_expected_cat_df,
                   df_duplicates_subset, unqualified_df, files, transform_locals>>

\* data_validation, line 86
FilterMonthRange ==
    /\ pc = "filter_month_range"
    /\ qualified_df' = filter_month_range(qualified_df)
    /\ pc' = "filter_categorical_expected_values"
    /\ UNCHANGED <<rules, run, clock, df, non_numeric_df,
                   missing_from_expected_cat_df, df_duplicates_subset,
                   unqualified_df, files, transform_locals>>

\* data_validation, lines 89-96
FilterCategoricalExpectedValues ==
    /\ pc = "filter_categorical_expected_values"
    /\ LET categorical_rules == load_quality_rules
           res == filter_categorical_expected_values(
                      categorical_rules,
                      UppercaseCategorical(qualified_df, categorical_rules),
                      clock)
       IN  /\ qualified_df' = res.qualified
           /\ missing_from_expected_cat_df' = res.missing
    /\ clock' = clock + 2
    /\ pc' = "get_remaining_lease"
    /\ UNCHANGED <<rules, run, df, non_numeric_df, df_duplicates_subset,
                   unqualified_df, files, transform_locals>>

\* data_validation, line 102
GetRemainingLease ==
    /\ pc = "get_remaining_lease"
    /\ qualified_df' = get_remaining_lease(qualified_df, clock)
    /\ clock' = clock + 1
    /\ pc' = "filter_duplicate_rows"
    /\ UNCHANGED <<rules, run, df, non_numeric_df, missing_from_expected_cat_df,
                   df_duplicates_subset, unqualified_df, files, transform_locals>>

\* data_validation, line 105
FilterDuplicateRows ==
    /\ pc = "filter_duplicate_rows"
    /\ \E p \in Orders(DuplicateRowsSurvivors(qualified_df)) :
           LET res == filter_duplicate_rows(qualified_df, clock, p)
           IN  /\ qualified_df' = res.qualified_unique_df
               /\ df_duplicates_subset' = res.df_duplicates_subset
    /\ clock' = clock + 2
    /\ pc' = "export"
    /\ UNCHANGED <<rules, run, df, non_numeric_df, missing_from_expected_cat_df,
                   unqualified_df, files, transform_locals>>

\* data_validation, lines 107-123: the failed frame, the two CSV files written
Export ==
    /\ pc = "export"
    /\ unqualified_df' =
           non_numeric_df \o missing_from_expected_cat_df \o df_duplicates_subset
    /\ cleaned_file' = write_csv(qualified_df)
    /\ failed_file' = write_csv(unqualified_df')
    /\ failed_exists' = TRUE
    /\ pc' = "validated"
    /\ UNCHANGED <<rules, run, clock, df, non_numeric_df, qualified_df,
                   missing_from_expected_cat_df, df_duplicates_subset,
                   transformed_file, hashed_file, transform_locals>>

\* transform_cleaned_data, lines 39-48: the cleaned CSV read, the identifier
GetResaleIdentifier ==
    /\ pc = "validated"
    /\ df_with_resale_identifier' =
           get_resale_identifier(read_cleaned_csv(cleaned_file))
    /\ pc' = "filter_resale_identifier"
    /\ UNCHANGED <<rules, run, clock, df, non_numeric_df, qualified_df,
                   missing_from_expected_cat_df, df_duplicates_subset,
                   unqualified_df, files, df_remove_duplicates>>

\* transform_cleaned_data, line 48: filter_resale_identifier after line 67
FilterResaleIdentifier ==
    /\ pc = "filter_resale_identifier"
    /\ \E p \in Orders(ResaleIdentifierSurvivors(df_with_resale_identifier)) :
           df_remove_duplicates' =
               Reordered(ResaleIdentifierSurvivors(df_with_resale_identifier), p)
    /\ df_duplicates_subset' = ResaleIdentifierSubset(df_with_resale_identifier)
    /\ pc' = "update_csv"
    /\ UNCHANGED <<rules, run, clock, df, non_numeric_df, qualified_df,
                   missing_from_expected_cat_df, unqualified_df, files,
                   df_with_resale_identifier>>

\* transform_cleaned_data, lines 53-64: the failed CSV updated, the
\* transformed and the hashed CSV written
TransformExport ==
    /\ pc = "update_csv"
    /\ failed_file' = update_csv(df_duplicates_subset, failed_exists, failed_file)
    /\ failed_exists' = TRUE
    /\ transformed_file' = write_cleaned_csv(df_remove_duplicates)
    /\ hashed_file' = write_cleaned_csv(get_hashed_dataset(df_remove_duplicates))
    /\ pc' = "done"
    /\ UNCHANGED <<rules, run, clock, df, non_numeric_df, qualified_df,
                   missing_from_expected_cat_df, df_duplicates_subset,
                   unqualified_df, cleaned_file, transform_locals>>

Steps ==
    \/ FilterNullValues
    \/ FilterMonthRange
    \/ FilterCategoricalExpectedValues
    \/ GetRemainingLease
    \/ FilterDuplicateRows
    \/ Export
    \/ GetResaleIdentifier
    \/ FilterResaleIdentifier
    \/ TransformExport

\* one run of the pipeline on one batch
Next == CombineDatasets(RawRows, MaxRows, 1) \/ Steps

Spec == Init /\ [][Next]_vars

\* run after run against the same output paths
NextRuns == CombineDatasets(RunRows, MaxRows, MaxRuns) \/ Steps

SpecRuns == Init /\ [][NextRuns]_vars

---------------------------------------------------------------------------
(* Properties *)

\* the failed rows of every later position of a run
AfterValidation == {"validated", "filter_resale_identifier", "update_csv", "done"}

\* C1: after a full run of data_validation every input row is in exactly one
\* of the two results, so that |qualified| + |failed| = |input|.
C1_EveryRowInExactlyOneOutput ==
    pc = "validated" =>
        /\ \A i \in 1..Len(df) :
               Count(qualified_df, df[i].rid) + Count(unqualified_df, df[i].rid) = 1
        /\ Len(qualified_df) + Len(unqualified_df) = Len(df)

\* the positions of a frame's rows with composite key k
WithKey(frame, k) == {i \in 1..Len(frame) : CompositeKey(frame[i]) = k}

\* the first position, in the frame's order, of a highest-priced row with key k
FirstHighest(frame, k) ==
    CHOOSE i \in WithKey(frame, k) :
        /\ \A j \in WithKey(frame, k) :
               Val(frame[j].resale_price) <= Val(frame[i].resale_price)
        /\ \A j \in WithKey(frame, k) :
               Val(frame[j].resale_price) = Val(frame[i].resale_price) => i <= j

C2Step ==
    /\ \A i \in 1..Len(qualified_df) :
           LET k == CompositeKey(qualified_df[i])
               first == qualified_df[FirstHighest(qualified_df, k)]
               kept == {j \in 1..Len(qualified_df') :
                           qualified_df'[j].composite_key = k}
           IN  /\ Cardinality(kept) = 1
               /\ \A j \in kept :
                      /\ qualified_df'[j].rid = first.rid
                      /\ qualified_df'[j].resale_price = first.resale_price
               \* a row that is not its key's survivor is among the duplicates
               /\ qualified_df[i].rid # first.rid =>
                      \E j \in 1..Len(df_duplicates_subset') :
                          /\ df_duplicates_subset'[j].rid = qualified_df[i].rid
                          /\ df_duplicates_subset'[j].reason_for_fail
                                 = "filter_duplicate_rows"
    /\ \A j \in 1..Len(qualified_df') :
           qualified_df'[j].rid \in Rids(qualified_df)

\* C2: filter_duplicate_rows keeps, for every composite key of its input,
\* exactly one row, the highest-priced one and among equally priced ones the
\* first of the input; every other row of the key is in the duplicates subset
\* with reason_for_fail = "filter_duplicate_rows".
C2_SurvivorIsHighestPriced ==
    [][pc = "filter_duplicate_rows" => C2Step]_vars

\* the base row at 350000 survives alone, the one at 300000 is a duplicate
C2_Witness ==
    /\ pc = "export"
    /\ Len(qualified_df) = 1
    /\ qualified_df[1].resale_price = Some(350000)
    /\ \E j \in 1..Len(df_duplicates_subset) :
           df_duplicates_subset[j].resale_price = Some(300000)

\* two equally priced rows of one key: the first of the input survives
C2_WitnessTie ==
    /\ pc = "export"
    /\ Len(df) = 2
    /\ df[1] = [df[2] EXCEPT !.rid = df[1].rid]
    /\ Rids(qualified_df) = {df[1].rid}

\* C3: the survivors and the duplicates subset of filter_duplicate_rows
\* partition its input: every input row is in exactly one of the two.
C3_SurvivorsAndDuplicatesPartition ==
    [][pc = "filter_duplicate_rows" =>
          \A i \in 1..Len(qualified_df) :
              Count(qualified_df', qualified_df[i].rid)
                + Count(df_duplicates_subset', qualified_df[i].rid) = 1]_vars

\* a row passes the membership test of every categorical column, upper-cased
InEveryExpectedSet(r) ==
    \A k \in 1..Len(rules.categorical_columns) :
        ToUppercase(r[rules.categorical_columns[k].column])
            \in rules.categorical_columns[k].expected_values

\* C4: the categorical filter keeps exactly the rows that are in the expected
\* set of every categorical column and rejects every other row with
\* reason_for_fail = "filter_categorical_expected_values"; each input row is
\* in the two frames exactly once.
C4_CategoricalConjunction ==
    [][pc = "filter_categorical_expected_values" =>
          \A i \in 1..Len(qualified_df) :
              LET r == qualified_df[i]
              IN  /\ Count(qualified_df', r.rid)
                       = (IF InEveryExpectedSet(r) THEN 1 ELSE 0)
                  /\ Count(missing_from_expected_cat_df', r.rid)
                       = (IF InEveryExpectedSet(r) THEN 0 ELSE 1)
                  /\ \A j \in 1..Len(missing_from_expected_cat_df') :
                         missing_from_expected_cat_df'[j].reason_for_fail
                             = "filter_categorical_expected_values"]_vars

\* C5: the failed output is cumulative (a row once written stays after every
\* later write, of a later stage or a later run) while the qualified output
\* holds only the rows of the run that wrote it.
C5_FailedOutputCumulative ==
    [][/\ \A i \in 1..Len(failed_file) :
              \E j \in 1..Len(failed_file') : failed_file'[j] = failed_file[i]
       /\ pc' \in AfterValidation =>
              \A j \in 1..Len(cleaned_file') : cleaned_file'[j].rid[1] = run']_vars

\* one of resale_price, month, lease_commence_date, floor_area_sqm of a raw
\* row does not parse
FailsToParse(r) ==
    \/ ToInteger(r.resale_price) = Null
    \/ ToDateYearMonth(r.month) = Null
    \/ ToDateYear(r.lease_commence_date) = Null
    \/ ToInteger(r.floor_area_sqm) = Null

\* the rows of a frame made from input row id
RowsOf(frame, id) == {i \in 1..Len(frame) : frame[i].rid = id}

\* C6: a row with an unparseable resale_price, month, lease_commence_date or
\* floor_area_sqm is rejected by filter_null_values with that reason, is in no
\* frame a later stage works on, and ends in the failed output once, with
\* reason_for_fail = "filter_null_values".
C6_UnparseableRowShortCircuits ==
    \A i \in 1..Len(df) :
        (FailsToParse(df[i]) /\ pc # "filter_null_values") =>
            /\ Count(non_numeric_df, df[i].rid) = 1
            /\ \A j \in RowsOf(non_numeric_df, df[i].rid) :
                   non_numeric_df[j].reason_for_fail = "filter_null_values"
            /\ Count(qualified_df, df[i].rid) = 0
            /\ Count(missing_from_expected_cat_df, df[i].rid) = 0
            /\ Count(df_duplicates_subset, df[i].rid) = 0
            /\ Count(df_with_resale_identifier, df[i].rid) = 0
            /\ Count(df_remove_duplicates, df[i].rid) = 0
            /\ pc \in AfterValidation =>
                   /\ Count(failed_file, df[i].rid) = 1
                   /\ \A j \in RowsOf(failed_file, df[i].rid) :
                          failed_file[j].reason_for_fail = "filter_null_values"
                   /\ Count(cleaned_file, df[i].rid) = 0

\* a batch of an unparseable row and a row that reaches the cleaned output
C6_Witness ==
    /\ pc = "done"
    /\ \E i \in 1..Len(df) :
           FailsToParse(df[i]) /\ Count(failed_file, df[i].rid) = 1
    /\ Len(cleaned_file) = 1

FourReasons ==
    {"filter_null_values", "filter_month_range",
     "filter_categorical_expected_values", "filter_duplicate_rows"}

\* C7 as stated: every row of the failed output carries one of the four
\* reasons of the failed schema.
C7_ReasonIsOneOfFour ==
    \A j \in 1..Len(failed_file) :
        /\ "reason_for_fail" \in DOMAIN failed_file[j]
        /\ failed_file[j].reason_for_fail \in FourReasons

\* C7: every row of the failed output carries a reason_for_fail that is one of
\* filter_null_values, filter_month_range, filter_categorical_expected_values,
\* filter_duplicate_rows or, for the rows displaced on a resale-identifier
\* collision, filter_resale_identifier.
C7_ReasonIsOneOfFive ==
    \A j \in 1..Len(failed_file) :
        /\ "reason_for_fail" \in DOMAIN failed_file[j]
        /\ failed_file[j].reason_for_fail
               \in FourReasons \cup {"filter_resale_identifier"}

\* rows displaced on a collision have been appended to the failed output
C7_Witness ==
    /\ pc = "done"
    /\ \E j \in 1..Len(failed_file) :
           failed_file[j].reason_for_fail = "filter_resale_identifier"

\* the positions after get_resale_identifier
AfterIdentifier == {"filter_resale_identifier", "update_csv", "done"}

\* the frame transform_cleaned_data reads
CleanedInput == read_cleaned_csv(cleaned_file)

\* the sum of the prices of a frame's rows at the positions in S
PriceSum(frame, S) ==
    LET F[i \in 0..Len(frame)] ==
            IF i = 0 THEN 0
            ELSE IF i \in S THEN F[i - 1] + Val(frame[i].resale_price)
            ELSE F[i - 1]
    IN  F[Len(frame)]

\* the positions of the (month, flat_type) group of row r in a frame
GroupOf(frame, r) ==
    {i \in 1..Len(frame) :
        frame[i].month = r.month /\ frame[i].flat_type = r.flat_type}

\* row a of frame fa and row b of frame fb have the same group mean
SameGroupMean(fa, a, fb, b) ==
    PriceSum(fa, GroupOf(fa, a)) * Cardinality(GroupOf(fb, b))
        = PriceSum(fb, GroupOf(fb, b)) * Cardinality(GroupOf(fa, a))

\* C8 as stated: two rows with the same block, month, flat_type and group mean
\* resale_price have the same resale_identifier.
C8_SameFourSameIdentifier ==
    pc \in AfterIdentifier =>
        \A i, j \in 1..Len(df_with_resale_identifier) :
            LET a == df_with_resale_identifier[i]
                b == df_with_resale_identifier[j]
            IN  ( /\ a.block = b.block
                  /\ a.month = b.month
                  /\ a.flat_type = b.flat_type
                  /\ SameGroupMean(CleanedInput, a, CleanedInput, b) )
                => a.resale_identifier = b.resale_identifier

\* C8: when transform_cleaned_data has returned, two rows with the same block,
\* month, flat_type, group mean resale_price and town have the same
\* resale_identifier and the same hashed_resale_identifier, within the run and
\* between the run and a run on any permutation of the same rows.
C8_SameFiveSameIdentifierAndHash ==
    pc = "done" =>
        \A input \in {CleanedInput} :
        \A p \in Orders(input) :
        \A permuted \in {Reordered(input, p)} :
        \A rerun \in {get_hashed_dataset(get_resale_identifier(permuted))} :
            \A i \in 1..Len(df_with_resale_identifier), j \in 1..Len(rerun) :
                LET a == df_with_resale_identifier[i]
                    b == rerun[j]
                IN  ( /\ a.block = b.block
                      /\ a.month = b.month
                      /\ a.flat_type = b.flat_type
                      /\ a.town = b.town
                      /\ SameGroupMean(input, a, permuted, b) )
                    => /\ a.resale_identifier = b.resale_identifier
                       /\ \A h \in RowsOf(hashed_file, a.rid) :
                              hashed_file[h].hashed_resale_identifier
                                  = b.hashed_resale_identifier

\* two different rows with the same five values, one of them hashed
C8_Witness ==
    /\ pc = "done"
    /\ Len(hashed_file) = 1
    /\ \E i, j \in 1..Len(df_with_resale_identifier) :
           LET a == df_with_resale_identifier[i]
               b == df_with_resale_identifier[j]
           IN  /\ a.rid # b.rid
               /\ a.block = b.block
               /\ a.month = b.month
               /\ a.flat_type = b.flat_type
               /\ a.town = b.town
               /\ a.resale_identifier = b.resale_identifier

\* the digits of a text, with zeros on the left when they are fewer than three
PaddedDigits(s) ==
    LET digits == SelectSeq(s, IsDigit)
        zeros == IF Len(digits) >= 3 THEN 0 ELSE 3 - Len(digits)
    IN  [k \in 1..(zeros + Len(digits)) |->
            IF k <= zeros THEN "0" ELSE digits[k - zeros]]

\* the group average of row f of the cleaned CSV, cut to an integer, modulo 100
MeanModHundred(f) ==
    LET group == {k \in 1..Len(cleaned_file) :
                     /\ cleaned_file[k].month = f.month
                     /\ cleaned_file[k].flat_type = f.flat_type}
        total[k \in 0..Len(cleaned_file)] ==
            IF k = 0 THEN 0
            ELSE IF k \in group THEN total[k - 1] + NatOf(cleaned_file[k].resale_price)
            ELSE total[k - 1]
    IN  (total[Len(cleaned_file)] \div Cardinality(group)) % 100

\* the month of year of a date text YYYY-MM-DD
MonthOfYear(s) == NatOf(SubSeq(s, 6, 7))

C9_WitnessLongBlock ==
    /\ pc \in AfterIdentifier
    /\ \E i \in 1..Len(df_with_resale_identifier) :
           SubSeq(df_with_resale_identifier[i].resale_identifier, 1, 5)
               = <<"S", "1", "0", "0", "5">>

SixtySixYearsNineMonths ==
    <<"6", "6", " ", "y", "e", "a", "r", "s", " ", "9", " ",
      "m", "o", "n", "t", "h", "s">>

C10Step ==
    /\ Len(qualified_df') = Len(qualified_df)
    /\ \A i \in 1..Len(qualified_df) :
           LET r == qualified_df[i]
               out == qualified_df'[i]
               Y == rules.remaining_lease_max
                    - (Val(r.month).year - Val(r.lease_commence_date).year - 1)
               M == 12 - Val(r.month).month
           IN  /\ out.rid = r.rid
               /\ out.remaining_lease
                      = IntStr(Y) \o <<" ", "y", "e", "a", "r", "s", " ">>
                        \o IntStr(M) \o <<" ", "m", "o", "n", "t", "h", "s">>
               /\ \A k \in 1..Len(RawColumns) :
                      RawColumns[k] # "remaining_lease" =>
                          out[RawColumns[k]] = r[RawColumns[k]]
               /\ ( /\ r.month = Some(Date(2024, 3, 1))
                    /\ r.lease_commence_date = Some(Date(1990, 1, 1))
                    /\ rules.remaining_lease_max = 99 )
                  => out.remaining_lease = SixtySixYearsNineMonths

\* C10: get_remaining_lease sets remaining_lease of every row to
\* "{Y} years {M} months", Y = lease_bound - (year(month) -
\* year(lease_commence_date) - 1), M = 12 - month of year, over the earlier
\* value; it changes no other business field and drops no row.
C10_RemainingLease ==
    [][pc = "get_remaining_lease" => C10Step]_vars

\* month 2024-03, lease from 1990, bound 99: "66 years 9 months" in place of
\* the raw "65"
C10_Witness ==
    /\ pc = "filter_duplicate_rows"
    /\ \E i \in 1..Len(qualified_df) :
           /\ qualified_df[i].remaining_lease = SixtySixYearsNineMonths
           /\ \E k \in RowsOf(df, qualified_df[i].rid) :
                  df[k].remaining_lease = <<"6", "5">>

\* two rows agree on every column of the frame other than resale_price
SameButPrice(r, s) ==
    \A k \in 1..Len(RawColumns) :
        RawColumns[k] # "resale_price" => r[RawColumns[k]] = s[RawColumns[k]]

C11Step ==
    \A i, j \in 1..Len(qualified_df) :
        ~SameButPrice(qualified_df[i], qualified_df[j]) =>
            /\ CompositeKey(qualified_df[i]) # CompositeKey(qualified_df[j])
            /\ \E a, b \in 1..Len(qualified_df') :
                   /\ a # b
                   /\ SameButPrice(qualified_df'[a], qualified_df[i])
                   /\ SameButPrice(qualified_df'[b], qualified_df[j])

\* C11: two rows of filter_duplicate_rows' input that differ in a field other
\* than resale_price have different composite keys and are not collapsed:
\* the result holds a separate survivor for each of the two.
C11_DifferentRowsDifferentKeys ==
    [][pc = "filter_duplicate_rows" => C11Step]_vars

\* block 12A of AVE 1 and block 12 of AAVE 1 went into filter_duplicate_rows
\* with one composite key, and one survivor came out
C11_Collision ==
    /\ pc = "export"
    /\ Len(df) = 2
    /\ df[1].block = <<"1", "2", "A">>
    /\ df[2].block = <<"1", "2">>
    /\ Len(df_duplicates_subset) = 2
    /\ Rids(qualified_df) = {df[1].rid}

====
